------------------------------ MODULE Spec2Model ------------------------------
(***************************************************************************)
(* A model of generate_kml.py: the one-shot transform that reads the       *)
(* Prospective and the Installed sheet (CSV), validates and groups their   *)
(* rows, and writes sites.kml and networklink.kml.                         *)
(*                                                                         *)
(* Python str values that pass through a string function (strip, lower,    *)
(* float, html.escape, comparison, concatenation) are sequences of code    *)
(* points, so that those functions are computed and not assumed.  Column   *)
(* names, file names and colours are only ever compared for equality or    *)
(* copied, and are TLA+ strings.  The documents are kept as the structure  *)
(* the f-strings serialise: element by element, in document order.         *)
(***************************************************************************)
EXTENDS Integers, Sequences, FiniteSets, Bags, TLC

(***************************************************************************)
(* String literals of the source, as code points.                          *)
(***************************************************************************)
\* "Suggested"
s_Suggested == <<83,117,103,103,101,115,116,101,100>>
\* "Group Approved"
s_GroupApproved == <<71,114,111,117,112,32,65,112,112,114,111,118,101,100>>
\* "Group Rejected"
s_GroupRejected == <<71,114,111,117,112,32,82,101,106,101,99,116,101,100>>
\* "Owner Requested"
s_OwnerRequested == <<79,119,110,101,114,32,82,101,113,117,101,115,116,101,100>>
\* "Owner Approved"
s_OwnerApproved == <<79,119,110,101,114,32,65,112,112,114,111,118,101,100>>
\* "Owner Rejected"
s_OwnerRejected == <<79,119,110,101,114,32,82,101,106,101,99,116,101,100>>
\* "Node Installed"
s_NodeInstalled == <<78,111,100,101,32,73,110,115,116,97,108,108,101,100>>
\* "Backbone"
s_Backbone == <<66,97,99,107,98,111,110,101>>
\* "Branch"
s_Branch == <<66,114,97,110,99,104>>
\* "Home/Office Repeater"
s_HomeOfficeRepeater == <<72,111,109,101,47,79,102,102,105,99,101,32,82,101,112,101,97,116,101,114>>
\* "Room Server"
s_RoomServer == <<82,111,111,109,32,83,101,114,118,101,114>>
\* "In Service"
s_InService == <<73,110,32,83,101,114,118,105,99,101>>
\* "Pre-Install"
s_PreInstall == <<80,114,101,45,73,110,115,116,97,108,108>>
\* "Needs Updates"
s_NeedsUpdates == <<78,101,101,100,115,32,85,112,100,97,116,101,115>>
\* "Offline for Repair"
s_OfflineForRepair == <<79,102,102,108,105,110,101,32,102,111,114,32,82,101,112,97,105,114>>
\* "Needs Repair"
s_NeedsRepair == <<78,101,101,100,115,32,82,101,112,97,105,114>>
\* "Decommissioned"
s_Decommissioned == <<68,101,99,111,109,109,105,115,115,105,111,110,101,100>>
\* "http://maps.google.com/mapfiles/kml/paddle/wht-blank.png"
url_wht_blank == <<104,116,116,112,58,47,47,109,97,112,115,46,103,111,111,103,108,101,46,99,111,109,47,109,97,112,102,105,108,101,115,47,107,109,108,47,112,97,100,100,108,101,47,119,104,116,45,98,108,97,110,107,46,112,110,103>>
\* "http://maps.google.com/mapfiles/kml/paddle/grn-stars.png"
url_grn_stars == <<104,116,116,112,58,47,47,109,97,112,115,46,103,111,111,103,108,101,46,99,111,109,47,109,97,112,102,105,108,101,115,47,107,109,108,47,112,97,100,100,108,101,47,103,114,110,45,115,116,97,114,115,46,112,110,103>>
\* "http://maps.google.com/mapfiles/kml/paddle/grn-blank.png"
url_grn_blank == <<104,116,116,112,58,47,47,109,97,112,115,46,103,111,111,103,108,101,46,99,111,109,47,109,97,112,102,105,108,101,115,47,107,109,108,47,112,97,100,100,108,101,47,103,114,110,45,98,108,97,110,107,46,112,110,103>>
\* "http://maps.google.com/mapfiles/kml/paddle/X.png"
url_X == <<104,116,116,112,58,47,47,109,97,112,115,46,103,111,111,103,108,101,46,99,111,109,47,109,97,112,102,105,108,101,115,47,107,109,108,47,112,97,100,100,108,101,47,88,46,112,110,103>>
\* "FLG/TwiceAsNice MeshCore Site Map"
DATASET_NAME == <<70,76,71,47,84,119,105,99,101,65,115,78,105,99,101,32,77,101,115,104,67,111,114,101,32,83,105,116,101,32,77,97,112>>
\* " (Live)"
s_Live == <<32,40,76,105,118,101,41>>
\* "https://txkbaldlaw.github.io/meshnodes-site-map/sites.kml"
s_default_href == <<104,116,116,112,115,58,47,47,116,120,107,98,97,108,100,108,97,119,46,103,105,116,104,117,98,46,105,111,47,109,101,115,104,110,111,100,101,115,45,115,105,116,101,45,109,97,112,47,115,105,116,101,115,46,107,109,108>>
\* "p-cat-"
s_p_cat == <<112,45,99,97,116,45>>
\* "i-status-"
s_i_status == <<105,45,115,116,97,116,117,115,45>>
\* "&amp;"
s_amp == <<38,97,109,112,59>>
\* "&lt;"
s_lt == <<38,108,116,59>>
\* "&gt;"
s_gt == <<38,103,116,59>>
\* "&quot;"
s_quot == <<38,113,117,111,116,59>>
\* "&#x27;"
s_apos == <<38,35,120,50,55,59>>
\* "nan"
s_nan == <<110,97,110>>
\* "inf"
s_inf == <<105,110,102>>
\* "infinity"
s_infinity == <<105,110,102,105,110,105,116,121>>
\* "every "
s_every == <<101,118,101,114,121,32>>
\* " minutes"
s_minutes == <<32,109,105,110,117,116,101,115>>

(***************************************************************************)
(* High-level configuration (lines 12-22).  The environment is a state     *)
(* variable; the three names below read it as the module-level code does.  *)
(***************************************************************************)
NETWORKLINK_NAME == DATASET_NAME \o s_Live

OUTPUT_KML == "sites.kml"

OUTPUT_NETWORKLINK == "networklink.kml"

\* DATASET_URL with the variable unset: os.environ.get("DATASET_URL", "").strip()
DATASET_URL == <<>>

REFRESH_SECONDS == 600

(***************************************************************************)
(* Styling tables.  A Python dict is a sequence of <<key, value>> pairs in *)
(* insertion order, which is the order .items() iterates in.               *)
(***************************************************************************)
PROSPECTIVE_CATEGORY_ORDER ==
    << s_Suggested, s_GroupApproved, s_GroupRejected,
       s_OwnerRequested, s_OwnerApproved, s_OwnerRejected >>

PROSPECTIVE_CATEGORY_COLORS ==
    << <<s_OwnerApproved, "ff00ff00">>,
       <<s_GroupApproved, "fffeb900">>,
       <<s_NodeInstalled, "ff00ff00">>,
       <<s_Suggested, "ffeeff00">>,
       <<s_OwnerRequested, "ffda00ff">>,
       <<s_OwnerRejected, "ff000000">>,
       <<s_GroupRejected, "ff0000ff">> >>

PROSPECTIVE_DEFAULT_ICON_URL == url_wht_blank

PROSPECTIVE_CATEGORY_ICONS ==
    << <<s_NodeInstalled, url_grn_stars>>,
       <<s_OwnerApproved, url_grn_blank>>,
       <<s_Suggested, url_wht_blank>>,
       <<s_OwnerRejected, url_X>>,
       <<s_GroupRejected, url_X>> >>

NODE_CLASS_ORDER ==
    << s_Backbone, s_Branch, s_HomeOfficeRepeater, s_RoomServer >>

INSTALLED_STATUS_COLORS ==
    << <<s_InService, "ff00ff00">>,
       <<s_PreInstall, "ffeeff00">>,
       <<s_NeedsUpdates, "ff00ffff">>,
       <<s_OfflineForRepair, "ff00a5ff">>,
       <<s_NeedsRepair, "ff0000ff">>,
       <<s_Decommissioned, "ff808080">> >>

INSTALLED_DEFAULT_ICON_URL == url_wht_blank

INSTALLED_STATUS_ICONS == << >>

PROSPECTIVE_REQUIRED_COLUMNS == << "Name", "Latitude", "Longitude", "Category" >>

INSTALLED_REQUIRED_COLUMNS ==
    << "Node ID", "Node Name", "Latitude", "Longitude", "Node Class", "Node Status" >>

(***************************************************************************)
(* Python built-ins the code calls, on code-point strings.                 *)
(***************************************************************************)
\* Python's None.  No code point is negative, so no string equals it.
None == << -1 >>

\* x or "" : None and the empty string are both falsy.
OrEmpty(v) == IF v = None THEN <<>> ELSE v

\* str.strip() with no argument removes whitespace; these are the ASCII ones.
IsSpace(c) == c \in {9, 10, 11, 12, 13, 28, 29, 30, 31, 32}

RECURSIVE LStrip(_)
LStrip(s) == IF s # <<>> /\ IsSpace(Head(s)) THEN LStrip(Tail(s)) ELSE s

RECURSIVE RStrip(_)
RStrip(s) ==
    IF s # <<>> /\ IsSpace(s[Len(s)]) THEN RStrip(SubSeq(s, 1, Len(s) - 1)) ELSE s

Strip(s) == RStrip(LStrip(s))

\* str.lower() on ASCII: A..Z to a..z, every other code point unchanged.
Lower(s) == [i \in 1..Len(s) |-> IF s[i] \in 65..90 THEN s[i] + 32 ELSE s[i]]

\* str < str : lexicographic on code points, a proper prefix is smaller.
RECURSIVE StrLess(_, _)
StrLess(a, b) ==
    IF b = <<>> THEN FALSE
    ELSE IF a = <<>> THEN TRUE
    ELSE IF Head(a) # Head(b) THEN Head(a) < Head(b)
    ELSE StrLess(Tail(a), Tail(b))

\* html.escape(s, quote=True)
EscapeChar(c) ==
    IF c = 38 THEN s_amp
    ELSE IF c = 60 THEN s_lt
    ELSE IF c = 62 THEN s_gt
    ELSE IF c = 34 THEN s_quot
    ELSE IF c = 39 THEN s_apos
    ELSE <<c>>

RECURSIVE html_escape(_)
html_escape(s) ==
    IF s = <<>> THEN <<>> ELSE EscapeChar(Head(s)) \o html_escape(Tail(s))

\* str(n) for n >= 0, as used by the f-strings that format an int.
RECURSIVE DecStr(_)
DecStr(n) == IF n < 10 THEN <<48 + n>> ELSE DecStr(n \div 10) \o <<48 + (n % 10)>>

\* x in d, d.get(x, default) and list.index(x) on the tables above.
HasKey(d, key) == \E i \in 1..Len(d) : d[i][1] = key

DictGet(d, key, default) ==
    IF HasKey(d, key)
    THEN d[CHOOSE i \in 1..Len(d) : d[i][1] = key][2]
    ELSE default

InList(l, x) == \E i \in 1..Len(l) : l[i] = x

IndexOf(l, x) == (CHOOSE i \in 1..Len(l) : l[i] = x /\ \A j \in 1..(i - 1) : l[j] # x) - 1

(***************************************************************************)
(* float(v).  A float is [kind, neg, m, k]: kind "num" is the decimal      *)
(* (-1)^neg * m / 10^k in lowest form, "inf" and "nan" are the specials,   *)
(* and NoFloat is the None that safe_float returns.  The grammar is the    *)
(* one float() accepts: surrounding whitespace, a sign, then nan, inf,     *)
(* infinity (any letter case) or digits with an optional point and an      *)
(* optional exponent.  Decimals are kept exact; the inputs drawn below     *)
(* have few digits, where exact and double comparison with 90 and 180      *)
(* agree.                                                                  *)
(***************************************************************************)
NoFloat == [kind |-> "None", neg |-> FALSE, m |-> 0, k |-> 0]

IsDigit(c) == c \in 48..57

RECURSIVE DigitsLen(_)
DigitsLen(s) == IF s # <<>> /\ IsDigit(Head(s)) THEN 1 + DigitsLen(Tail(s)) ELSE 0

RECURSIVE DigitsVal(_, _)
DigitsVal(s, acc) ==
    IF s = <<>> THEN acc ELSE DigitsVal(Tail(s), acc * 10 + (Head(s) - 48))

RECURSIVE Pow10(_)
Pow10(n) == IF n = 0 THEN 1 ELSE 10 * Pow10(n - 1)

RECURSIVE Normal(_, _, _)
Normal(neg, m, k) ==
    IF m = 0 THEN [kind |-> "num", neg |-> neg, m |-> 0, k |-> 0]
    ELSE IF k > 0 /\ m % 10 = 0 THEN Normal(neg, m \div 10, k - 1)
    ELSE [kind |-> "num", neg |-> neg, m |-> m, k |-> k]

Drop(s, n) == SubSeq(s, n + 1, Len(s))

\* The exponent part: <<>> is exponent 0; otherwise e or E, a sign, digits.
ExpOk(r) ==
    \/ r = <<>>
    \/ /\ Head(r) \in {101, 69}
       /\ LET t == Tail(r)
              u == IF t # <<>> /\ Head(t) \in {43, 45} THEN Tail(t) ELSE t
          IN  u # <<>> /\ DigitsLen(u) = Len(u)

ExpVal(r) ==
    IF r = <<>> THEN 0
    ELSE LET t == Tail(r)
             sgn == t # <<>> /\ Head(t) = 45
             u == IF t # <<>> /\ Head(t) \in {43, 45} THEN Tail(t) ELSE t
         IN  IF sgn THEN 0 - DigitsVal(u, 0) ELSE DigitsVal(u, 0)

float(v) ==
    LET s == Strip(v)
        signed == s # <<>> /\ Head(s) \in {43, 45}
        neg == s # <<>> /\ Head(s) = 45
        body == IF signed THEN Tail(s) ELSE s
        n1 == DigitsLen(body)
        r1 == Drop(body, n1)
        point == r1 # <<>> /\ Head(r1) = 46
        r2 == IF point THEN Tail(r1) ELSE r1
        n2 == IF point THEN DigitsLen(r2) ELSE 0
        r3 == Drop(r2, n2)
        digits == SubSeq(body, 1, n1) \o SubSeq(r2, 1, n2)
        e == ExpVal(r3) - n2
    IN  IF Lower(body) = s_nan
        THEN [kind |-> "nan", neg |-> neg, m |-> 0, k |-> 0]
        ELSE IF Lower(body) \in {s_inf, s_infinity}
        THEN [kind |-> "inf", neg |-> neg, m |-> 0, k |-> 0]
        ELSE IF n1 + n2 > 0 /\ ExpOk(r3)
        THEN IF e >= 0
             THEN Normal(neg, DigitsVal(digits, 0) * Pow10(e), 0)
             ELSE Normal(neg, DigitsVal(digits, 0), 0 - e)
        ELSE NoFloat

\* float(None) raises TypeError and float of a non-number ValueError: both None.
safe_float(v) == IF v = None THEN NoFloat ELSE float(v)

Signed(x) == IF x.neg THEN 0 - x.m ELSE x.m

\* n <= x and x <= n for an int n and a float x; every comparison with nan is False.
IntLeFloat(n, x) ==
    \/ x.kind = "num" /\ n * Pow10(x.k) <= Signed(x)
    \/ x.kind = "inf" /\ ~x.neg

FloatLeInt(x, n) ==
    \/ x.kind = "num" /\ Signed(x) <= n * Pow10(x.k)
    \/ x.kind = "inf" /\ x.neg

(***************************************************************************)
(* csv.DictReader over the fetched text.  A sheet is the text as the csv   *)
(* module tokenises it: the first line's cells (the column names) and the  *)
(* cells of every later line; a blank line has no cells.                   *)
(***************************************************************************)
SeqSet(s) == {s[i] : i \in 1..Len(s)}

\* dict(zip(fieldnames, row)), then d[key] = None for fieldnames[len(row):].
\* Cells beyond the header go under the key None, which nothing reads.
RowDict(fieldnames, cells) ==
    [c \in SeqSet(fieldnames) |->
        LET i == CHOOSE j \in 1..Len(fieldnames) :
                    /\ fieldnames[j] = c
                    /\ \A l \in (j + 1)..Len(fieldnames) : fieldnames[l] # c
        IN  IF i <= Len(cells) THEN cells[i] ELSE None]

\* DictReader.__next__ skips blank lines: the index of the line the next
\* iteration yields, 0 when the reader is exhausted (StopIteration).
NextLine(reader) ==
    LET rest == {i \in (reader.pos + 1)..Len(reader.lines) : reader.lines[i] # <<>>}
    IN  IF rest = {} THEN 0 ELSE CHOOSE i \in rest : \A j \in rest : i <= j

NextRow(reader) == RowDict(reader.fieldnames, reader.lines[NextLine(reader)])

\* row.get(col)
Get(row, col) == IF col \in DOMAIN row THEN row[col] ELSE None

\* Fault variant of opt: .strip() forgotten.
opt_NoStrip(row, cols, col) == IF col \in cols THEN OrEmpty(Get(row, col)) ELSE <<>>

opt(row, cols, col) == IF col \in cols THEN Strip(OrEmpty(Get(row, col))) ELSE <<>>

\* Fault variant of Missing: only the first required column is looked for.
Missing_FirstOnly(required, cols) ==
    IF required[1] \notin cols THEN <<required[1]>> ELSE <<>>

\* The columns of missing_p / missing_i, in the order of the required list.
Missing(required, cols) == SelectSeq(required, LAMBDA c : c \notin cols)

(***************************************************************************)
(* sort_key_with_preferred_order, and sorted() / list.sort(), which are    *)
(* stable: equal keys keep the order they came in.                         *)
(***************************************************************************)
\* Fault variant of sort_key_with_preferred_order: value.lower() forgotten.
sort_key_case_sensitive(value, preferred) ==
    IF InList(preferred, value)
    THEN [tier |-> 0, index |-> IndexOf(preferred, value), text |-> <<>>]
    ELSE [tier |-> 1, index |-> 0, text |-> value]

sort_key_with_preferred_order(value, preferred) ==
    IF InList(preferred, value)
    THEN [tier |-> 0, index |-> IndexOf(preferred, value), text |-> <<>>]
    ELSE [tier |-> 1, index |-> 0, text |-> Lower(value)]

\* (0, i) < (1, s), (0, i) < (0, j) iff i < j, (1, s) < (1, t) iff s < t.
KeyLess(a, b) ==
    \/ a.tier < b.tier
    \/ a.tier = b.tier /\ a.tier = 0 /\ a.index < b.index
    \/ a.tier = b.tier /\ a.tier = 1 /\ StrLess(a.text, b.text)

\* sorted(keys, key=lambda c: sort_key_with_preferred_order(c, preferred)) by
\* insertion: x goes before the first element whose key is greater than x's,
\* so it stays behind every element with an equal key that came before it.
RECURSIVE InsertByOrder(_, _, _)
InsertByOrder(s, x, preferred) ==
    IF s = <<>> THEN <<x>>
    ELSE IF KeyLess(sort_key_with_preferred_order(x, preferred),
                    sort_key_with_preferred_order(Head(s), preferred))
    THEN <<x>> \o s
    ELSE <<Head(s)>> \o InsertByOrder(Tail(s), x, preferred)

RECURSIVE SortedByOrder(_, _)
SortedByOrder(s, preferred) ==
    IF s = <<>> THEN <<>>
    ELSE InsertByOrder(SortedByOrder(SubSeq(s, 1, Len(s) - 1), preferred),
                       s[Len(s)], preferred)

\* entries.sort(key=lambda x: x[0]) : the same, on the str key of each entry.
RECURSIVE InsertEntry(_, _)
InsertEntry(s, x) ==
    IF s = <<>> THEN <<x>>
    ELSE IF StrLess(x[1], Head(s)[1]) THEN <<x>> \o s
    ELSE <<Head(s)>> \o InsertEntry(Tail(s), x)

\* Fault variant of SortEntries: the list is left in the order of the rows.
SortEntries_Unsorted(entries) == entries

RECURSIVE SortEntries(_)
SortEntries(entries) ==
    IF entries = <<>> THEN <<>>
    ELSE InsertEntry(SortEntries(SubSeq(entries, 1, Len(entries) - 1)),
                     entries[Len(entries)])

style_id(prefix, name) == prefix \o name

build_style_block(style_id_str, color, icon_url) ==
    [id |-> html_escape(style_id_str), color |-> color, href |-> html_escape(icon_url)]

(***************************************************************************)
(* The folder dicts: category -> list of (sort_key, placemark), a sequence *)
(* of <<key, entries>> in insertion order.                                 *)
(***************************************************************************)
\* Fault variant of SetDefaultAppend: d[key] = [entry], which drops what the
\* key already held.
SetDefaultAppend_Overwrite(d, key, entry) ==
    IF \E i \in 1..Len(d) : d[i][1] = key
    THEN [i \in 1..Len(d) |-> IF d[i][1] = key THEN <<key, <<entry>>>> ELSE d[i]]
    ELSE Append(d, <<key, <<entry>>>>)

\* d.setdefault(key, []).append(entry)
SetDefaultAppend(d, key, entry) ==
    IF HasKey(d, key)
    THEN [i \in 1..Len(d) |->
            IF d[i][1] = key THEN <<key, Append(d[i][2], entry)>> ELSE d[i]]
    ELSE Append(d, <<key, <<entry>>>>)

Keys(d) == [i \in 1..Len(d) |-> d[i][1]]

(***************************************************************************)
(* The program state.                                                      *)
(*   environ, web   the process environment and what fetch_csv returns for *)
(*                  the two sheet URLs (the inputs of the run)             *)
(*   pc             the position in main()                                 *)
(*   now            the timestamp taken at line 140                        *)
(*   p_cols, p_reader, prospective_folders, prospective_skipped,           *)
(*   i_cols, i_reader, installed_folders, installed_skipped,               *)
(*   p_categories, i_classes    the locals of main() of the same names     *)
(*   files          the documents written so far, in the order written     *)
(*   exit_code, stderr          what die() leaves behind                   *)
(***************************************************************************)
VARIABLES environ, web, pc, now,
          p_cols, p_reader, prospective_folders, prospective_skipped,
          i_cols, i_reader, installed_folders, installed_skipped,
          p_categories, i_classes, files, exit_code, stderr

vars == << environ, web, pc, now,
           p_cols, p_reader, prospective_folders, prospective_skipped,
           i_cols, i_reader, installed_folders, installed_skipped,
           p_categories, i_classes, files, exit_code, stderr >>

PROSPECTIVE_CSV_URL == Strip(environ["PROSPECTIVE_CSV_URL"])

INSTALLED_CSV_URL == Strip(environ["INSTALLED_CSV_URL"])

\* csv.DictReader(text.splitlines()): nothing is read until fieldnames is asked for.
DictReader(sheet) == [fieldnames |-> sheet.header, lines |-> sheet.lines, pos |-> 0]

NoReader == [fieldnames |-> <<>>, lines |-> <<>>, pos |-> 0]

(***************************************************************************)
(* One row of the Prospective sheet (lines 156-211).                       *)
(***************************************************************************)
\* Fault variant of InRange: the lower bounds forgotten.
InRange_UpperOnly(lat, lon) == FloatLeInt(lat, 90) /\ FloatLeInt(lon, 180)

InRange(lat, lon) ==
    /\ IntLeFloat(-90, lat) /\ FloatLeInt(lat, 90)
    /\ IntLeFloat(-180, lon) /\ FloatLeInt(lon, 180)

\* Fault variant of ProspectiveSkip: the range bounds excluded.
ProspectiveSkip_Strict(name, category, lat, lon) ==
    \/ name = <<>> \/ category = <<>> \/ lat = NoFloat \/ lon = NoFloat
    \/ ~InRange(lat, lon)
    \/ IntLeFloat(90, lat) \/ FloatLeInt(lat, -90)
    \/ IntLeFloat(180, lon) \/ FloatLeInt(lon, -180)

\* The two conditions that skip a Prospective row (lines 161 and 164).
ProspectiveSkip(name, category, lat, lon) ==
    \/ name = <<>> \/ category = <<>> \/ lat = NoFloat \/ lon = NoFloat
    \/ ~InRange(lat, lon)

\* One element of desc_parts.  tag "b" is <b>label:</b> text, "a" is the FCC
\* link (the text is both the href and the anchor text), "i" is <i>label:</i> text.
DescLine(tag, label, text) == [tag |-> tag, label |-> label, text |-> text]

\* The  if value: desc_parts.append(...)  lines, for <<label, value>> pairs in order.
RECURSIVE OptionalLines(_)
OptionalLines(fields) ==
    IF fields = <<>> THEN <<>>
    ELSE LET label == Head(fields)[1]
             value == Head(fields)[2]
         IN  (IF value # <<>>
              THEN << DescLine(IF label = "FCC Link" THEN "a" ELSE "b",
                               label, html_escape(value)) >>
              ELSE <<>>) \o OptionalLines(Tail(fields))

\* desc_parts.extend([Updated, Refresh]) (lines 192-195 and 300-303)
TrailingLines(t) ==
    << DescLine("i", "Updated (UTC)", t),
       DescLine("i", "Refresh", s_every \o DecStr(REFRESH_SECONDS \div 60) \o s_minutes) >>

ProspectiveOptional(row, cols) ==
    << <<"Street Address", opt(row, cols, "Street Address")>>,
       <<"Proposed By", opt(row, cols, "Proposed By")>>,
       <<"Assigned To", opt(row, cols, "Assigned To")>>,
       <<"Node Owner", opt(row, cols, "Node Owner")>>,
       <<"Installed Node Name", opt(row, cols, "Installed Node Name")>>,
       <<"FCC ID", opt(row, cols, "FCC ID")>>,
       <<"FCC Link", opt(row, cols, "FCC Link")>>,
       <<"Notes", opt(row, cols, "Notes")>> >>

\* Fault variant of ProspectiveStyle: the reference is made without looking
\* the category up.
ProspectiveStyle_Unchecked(category) == <<35>> \o style_id(s_p_cat, category)

\* p_style (lines 199-201): empty when the category has no colour.
ProspectiveStyle(category) ==
    IF HasKey(PROSPECTIVE_CATEGORY_COLORS, category)
    THEN <<35>> \o style_id(s_p_cat, category)
    ELSE <<>>

\* A <Placemark>; styleUrl <<>> is the element left out.
Placemark(name, style, desc, lon, lat) ==
    [name |-> html_escape(name),
     styleUrl |-> IF style # <<>> THEN html_escape(style) ELSE <<>>,
     desc |-> desc, lon |-> lon, lat |-> lat]

ProspectivePlacemark(row, cols, t) ==
    LET name == Strip(OrEmpty(Get(row, "Name")))
        category == Strip(OrEmpty(Get(row, "Category")))
    IN  Placemark(name, ProspectiveStyle(category),
                  << DescLine("b", "Name", html_escape(name)),
                     DescLine("b", "Category", html_escape(category)) >>
                  \o OptionalLines(ProspectiveOptional(row, cols))
                  \o TrailingLines(t),
                  safe_float(Get(row, "Longitude")), safe_float(Get(row, "Latitude")))

(***************************************************************************)
(* One row of the Installed sheet (lines 227-319).                         *)
(***************************************************************************)
InstalledSkip(node_id, node_name, node_class, node_status, lat, lon) ==
    \/ node_id = <<>> \/ node_name = <<>> \/ node_class = <<>> \/ node_status = <<>>
    \/ lat = NoFloat \/ lon = NoFloat
    \/ ~InRange(lat, lon)

\* last_updated_date (line 260):  opt(Last Updated Date) or opt(Late Updated Date)
LastUpdatedDate(row, cols) ==
    IF opt(row, cols, "Last Updated Date") # <<>>
    THEN opt(row, cols, "Last Updated Date")
    ELSE opt(row, cols, "Late Updated Date")

InstalledOptional(row, cols) ==
    << <<"Node Owner", opt(row, cols, "Node Owner")>>,
       <<"Site Owner", opt(row, cols, "Site Owner")>>,
       <<"Site Contact Name", opt(row, cols, "Site Contact Name")>>,
       <<"Site Contact Phone", opt(row, cols, "Site Contact Phone")>>,
       <<"Site Contact Email", opt(row, cols, "Site Contact Email")>>,
       <<"Node Baseboard", opt(row, cols, "Node Baseboard")>>,
       <<"Antenna", opt(row, cols, "Antenna")>>,
       <<"Antenna Gain", opt(row, cols, "Antenna Gain")>>,
       <<"Battery Type", opt(row, cols, "Battery Type")>>,
       <<"Battery Quantity", opt(row, cols, "Battery Quantity")>>,
       <<"Solar", opt(row, cols, "Solar")>>,
       <<"Solar Panel Wattage", opt(row, cols, "Solar Panel Wattage")>>,
       <<"Installation Type", opt(row, cols, "Installation Type")>>,
       <<"Installed Elevation", opt(row, cols, "Installed Elevation")>>,
       <<"Installed Date", opt(row, cols, "Installed Date")>>,
       <<"Last Updated Date", LastUpdatedDate(row, cols)>>,
       <<"Decommissioned Date", opt(row, cols, "Decommissioned Date")>>,
       <<"FCC ID", opt(row, cols, "FCC ID")>>,
       <<"FCC Link", opt(row, cols, "FCC Link")>>,
       <<"Notes", opt(row, cols, "Notes")>> >>

\* Fault variant of InstalledStyle: the reference is made without looking the
\* status up.
InstalledStyle_Unchecked(node_status) == <<35>> \o style_id(s_i_status, node_status)

\* i_style (lines 307-309): empty when the status has no colour.
InstalledStyle(node_status) ==
    IF HasKey(INSTALLED_STATUS_COLORS, node_status)
    THEN <<35>> \o style_id(s_i_status, node_status)
    ELSE <<>>

InstalledPlacemark(row, cols, t) ==
    LET node_id == Strip(OrEmpty(Get(row, "Node ID")))
        node_name == Strip(OrEmpty(Get(row, "Node Name")))
        node_class == Strip(OrEmpty(Get(row, "Node Class")))
        node_status == Strip(OrEmpty(Get(row, "Node Status")))
    IN  Placemark(node_name, InstalledStyle(node_status),
                  << DescLine("b", "Node Name", html_escape(node_name)),
                     DescLine("b", "Node ID", html_escape(node_id)),
                     DescLine("b", "Node Class", html_escape(node_class)),
                     DescLine("b", "Node Status", html_escape(node_status)) >>
                  \o OptionalLines(InstalledOptional(row, cols))
                  \o TrailingLines(t),
                  safe_float(Get(row, "Longitude")), safe_float(Get(row, "Latitude")))

(***************************************************************************)
(* Styles, folders and the two documents (lines 324-427).                  *)
(***************************************************************************)
\* style_blocks: the Prospective category styles, then the Installed status styles.
StyleBlocks ==
    [i \in 1..Len(PROSPECTIVE_CATEGORY_COLORS) |->
        LET cat == PROSPECTIVE_CATEGORY_COLORS[i][1]
        IN  build_style_block(style_id(s_p_cat, cat), PROSPECTIVE_CATEGORY_COLORS[i][2],
                DictGet(PROSPECTIVE_CATEGORY_ICONS, cat, PROSPECTIVE_DEFAULT_ICON_URL))]
    \o
    [i \in 1..Len(INSTALLED_STATUS_COLORS) |->
        LET status == INSTALLED_STATUS_COLORS[i][1]
        IN  build_style_block(style_id(s_i_status, status), INSTALLED_STATUS_COLORS[i][2],
                DictGet(INSTALLED_STATUS_ICONS, status, INSTALLED_DEFAULT_ICON_URL))]

\* The loop  for cat in p_categories  sorts every list of the dict in place.
SortAll(d) == [i \in 1..Len(d) |-> <<d[i][1], SortEntries(d[i][2])>>]

Entries(d, key) == d[CHOOSE i \in 1..Len(d) : d[i][1] = key][2]

\* p_folder_parts / i_folder_parts: one <Folder> per key, in the order of keys,
\* holding the placemarks of that key's (by now sorted) list.
FolderParts(d, keys) ==
    [i \in 1..Len(keys) |->
        LET entries == Entries(d, keys[i])
        IN  [name |-> html_escape(keys[i]),
             placemarks |-> [j \in 1..Len(entries) |-> entries[j][2]]]]

SitesKml(t, p_skipped, i_skipped, p_parts, i_parts) ==
    [name |-> html_escape(DATASET_NAME),
     updated |-> t,
     prospective_skipped |-> p_skipped,
     installed_skipped |-> i_skipped,
     styles |-> StyleBlocks,
     prospective |-> [name |-> "Prospective Nodes", folders |-> p_parts],
     installed |-> [name |-> "Installed Nodes", folders |-> i_parts]]

NetworkLinkKml ==
    [name |-> html_escape(NETWORKLINK_NAME),
     href |-> html_escape(IF DATASET_URL # <<>> THEN DATASET_URL ELSE s_default_href),
     refreshInterval |-> REFRESH_SECONDS]

(***************************************************************************)
(* The inputs of a run, drawn from bounded sets: cell values, lines,       *)
(* headers, sheets, environments.                                         *)
(***************************************************************************)
\* ""
in_empty == <<>>
\* "  "
in_blank == <<32,32>>
\* "a"
in_a == <<97>>
\* "A"
\* "b"
in_b == <<98>>
\* "B"
in_B == <<66>>
\* " a "
in_a_padded == <<32,97,32>>
\* "45"
in_45 == <<52,53>>
\* " 4.5e1 "
in_45_exp == <<32,52,46,53,101,49,32>>
\* "-100"
in_m100 == <<45,49,48,48>>
\* "abc"
in_abc == <<97,98,99>>
\* "nan"
in_nan == <<110,97,110>>
\* "90"
\* "90.5"
in_90_5 == <<57,48,46,53>>
\* "-90"
in_m90 == <<45,57,48>>
\* "-91"
in_m91 == <<45,57,49>>
\* "180"
in_180 == <<49,56,48>>
\* "-180"
in_m180 == <<45,49,56,48>>
\* "180.1"
in_180_1 == <<49,56,48,46,49>>
\* "181"
in_181 == <<49,56,49>>
\* "-inf"
\* " Suggested "
in_Suggested_padded == <<32,83,117,103,103,101,115,116,101,100,32>>
\* "suggested"
in_suggested == <<115,117,103,103,101,115,116,101,100>>
\* "Other"
in_Other == <<79,116,104,101,114>>
\* "bar"
\* "Foo"
in_Foo == <<70,111,111>>
\* "foo"
in_foo == <<102,111,111>>
\* "n<1>"
in_note == <<110,60,49,62>>
\* "u&v"
in_link == <<117,38,118>>
\* "1 Main St"
\* "N1"
in_N1 == <<78,49>>
\* "N2"
in_N2 == <<78,50>>
\* "alpha"
in_alpha == <<97,108,112,104,97>>
\* "Alpha"
in_Alpha == <<65,108,112,104,97>>
\* "beta"
in_bar == <<98,97,114>>
in_beta == <<98,101,116,97>>
\* "Unknown"
in_Unknown == <<85,110,107,110,111,119,110>>
\* "Tower"
in_Tower == <<84,111,119,101,114>>
\* "tower"
\* "Annex"
\* "2024-01-01"
in_2024 == <<50,48,50,52,45,48,49,45,48,49>>
\* "2023-06-30"
in_2023 == <<50,48,50,51,45,48,54,45,51,48>>
\* "yagi"
in_yagi == <<121,97,103,105>>
\* "https://example.org/p.csv"
in_url_p == <<104,116,116,112,115,58,47,47,101,120,97,109,112,108,101,46,111,114,103,47,112,46,99,115,118>>
\* "https://example.org/i.csv"
in_url_i == <<104,116,116,112,115,58,47,47,101,120,97,109,112,108,101,46,111,114,103,47,105,46,99,115,118>>
\* "2026-01-01 00:00:00Z"
in_time == <<50,48,50,54,45,48,49,45,48,49,32,48,48,58,48,48,58,48,48,90>>

\* Rows per sheet in the families that vary one field of a row at a time.
MaxRows == 2

\* Rows per sheet in the families that vary names and classification keys.
MaxSortRows == 3

SeqsUpTo(S, n) == UNION {[1..k -> S] : k \in 0..n}

Sheets(headers, lines, n) ==
    {[header |-> h, lines |-> l] : h \in headers, l \in SeqsUpTo(lines, n)}

Timestamps == {in_time}

\* ---- Prospective sheets ----
PHeaderPlain == <<"Name", "Latitude", "Longitude", "Category">>

PHeaderOptional == <<"Name", "Latitude", "Longitude", "Category", "Notes", "FCC Link">>

\* No header at all, a required column absent, a required column in another case.
PHeadersBad ==
    { <<>>,
      <<"Name", "Latitude", "Longitude", "Notes">>,
      <<"name", "Latitude", "Longitude", "Category">> }

\* name, latitude, longitude, category: one good line, then one field changed.
PBase == <<in_a, in_45, in_m100, s_Suggested>>

PValidityLines ==
    { PBase,
      <<in_blank, in_45, in_m100, s_Suggested>>,
      <<in_a_padded, in_45_exp, in_m100, in_Suggested_padded>>,
      <<in_a, in_45, in_m100, in_empty>>,
      <<in_a, in_45, in_m100, in_suggested>>,
      <<in_a, in_nan, in_m100, s_Suggested>>,
      <<in_a, in_abc, in_m100, s_Suggested>>,
      <<in_a, in_m90, in_m100, s_Suggested>>,
      <<in_a, in_m91, in_m100, s_Suggested>>,
      <<in_b, in_45, in_180, s_Suggested>>,
      <<in_b, in_45, in_180_1, s_Suggested>>,
      <<in_b, in_45>>,
      <<>> }

\* Names in both letter cases, a listed category and unlisted ones equal up to
\* case.
PSortLines ==
    { <<in_B, in_45, in_m100, s_Suggested>>,
      <<in_a, in_45, in_m100, s_Suggested>>,
      <<in_a, in_45, in_m100, in_Foo>>,
      <<in_b, in_45, in_m100, in_foo>>,
      <<in_a, in_45, in_m100, in_bar>> }

\* name, latitude, longitude, category, notes, fcc link
POptionalLines ==
    { <<in_a, in_45, in_m100, s_Suggested, in_empty, in_empty>>,
      <<in_a, in_45, in_m100, s_Suggested, in_blank, in_link>>,
      <<in_b, in_45, in_m100, in_Other, in_note, in_blank>>,
      <<in_b, in_45, in_m100, s_Suggested>> }

ProspectiveSheets ==
    Sheets({PHeaderPlain}, PValidityLines, MaxRows)
    \cup Sheets({PHeaderPlain}, PSortLines, MaxSortRows)
    \cup Sheets({PHeaderPlain, PHeaderOptional}, POptionalLines, MaxRows)

PoorProspective ==
    { [header |-> PHeaderPlain, lines |-> <<PBase>>],
      [header |-> PHeaderPlain, lines |-> << <<in_a, in_abc, in_m100, s_Suggested>> >>] }

BadProspective == Sheets(PHeadersBad, {PBase}, 1)

\* ---- Installed sheets ----
IHeaderPlain ==
    <<"Node ID", "Node Name", "Latitude", "Longitude", "Node Class", "Node Status">>

IHeaderOptional ==
    IHeaderPlain \o <<"Last Updated Date", "Late Updated Date", "Notes", "Antenna">>

IHeaderLate == IHeaderPlain \o <<"Late Updated Date", "Antenna">>

IHeadersBad ==
    { <<>>,
      <<"Node ID", "Node Name", "Latitude", "Longitude", "Node Class">>,
      <<"Node ID", "Name", "Latitude", "Longitude", "Node Class", "Node Status">> }

\* node id, node name, latitude, longitude, node class, node status
IBase == <<in_N1, in_alpha, in_45, in_m100, s_Backbone, s_InService>>

IValidityLines ==
    { IBase,
      <<in_empty, in_alpha, in_45, in_m100, s_Backbone, s_InService>>,
      <<in_N1, in_blank, in_45, in_m100, s_Backbone, s_InService>>,
      <<in_N1, in_alpha, in_45, in_m100, in_empty, s_InService>>,
      <<in_N1, in_alpha, in_45, in_m100, s_Backbone, in_blank>>,
      <<in_N1, in_alpha, in_45, in_m100, s_Backbone, in_Unknown>>,
      <<in_N1, in_a_padded, in_45_exp, in_m100, in_Tower, s_NeedsRepair>>,
      <<in_N1, in_alpha, in_abc, in_m100, s_Backbone, s_InService>>,
      <<in_N1, in_alpha, in_90_5, in_m100, s_Backbone, s_InService>>,
      <<in_N1, in_alpha, in_m90, in_m180, s_Backbone, s_InService>>,
      <<in_N1, in_alpha, in_45, in_181, s_Backbone, s_InService>> }

IOrderLines ==
    { <<in_N1, in_beta, in_45, in_m100, s_Backbone, s_InService>>,
      <<in_N2, in_alpha, in_45, in_m100, s_Backbone, s_PreInstall>>,
      <<in_N1, in_Alpha, in_45, in_m100, s_Backbone, in_Unknown>>,
      <<in_N2, in_alpha, in_45, in_m100, s_Branch, s_Backbone>> }

\* ... then last updated date, late updated date, notes, antenna
IOptionalLines ==
    { IBase \o <<in_2024, in_2023, in_empty, in_empty>>,
      IBase \o <<in_empty, in_2023, in_note, in_yagi>>,
      IBase \o <<in_blank, in_2023, in_empty, in_blank>>,
      IBase }

InstalledSheets ==
    Sheets({IHeaderPlain}, IValidityLines, MaxRows)
    \cup Sheets({IHeaderPlain}, IOrderLines, MaxSortRows)
    \cup Sheets({IHeaderPlain, IHeaderOptional, IHeaderLate}, IOptionalLines, MaxRows)

PoorInstalled ==
    { [header |-> IHeaderPlain, lines |-> <<IBase>>],
      [header |-> IHeaderPlain,
       lines |-> << <<in_N1, in_alpha, in_45, in_181, s_Backbone, s_InService>> >>] }

BadInstalled == Sheets(IHeadersBad, {IBase}, 1)

\* ---- Environments and runs ----
GoodEnviron == [PROSPECTIVE_CSV_URL |-> in_url_p, INSTALLED_CSV_URL |-> in_url_i]

\* A variable unset (the default "") or set to blanks.
BadEnvirons ==
    { [PROSPECTIVE_CSV_URL |-> in_empty, INSTALLED_CSV_URL |-> in_url_i],
      [PROSPECTIVE_CSV_URL |-> in_blank, INSTALLED_CSV_URL |-> in_empty],
      [PROSPECTIVE_CSV_URL |-> in_url_p, INSTALLED_CSV_URL |-> in_blank] }

Web(p, i) == [prospective |-> p, installed |-> i]

\* A rich sheet on one side goes with a plain one on the other; sheets with a
\* bad header and bad environments go with the plain ones.
Webs ==
    {Web(p, i) : p \in ProspectiveSheets, i \in {CHOOSE s \in PoorInstalled : TRUE}}
    \cup {Web(p, i) : p \in {CHOOSE s \in PoorProspective : TRUE}, i \in InstalledSheets}
    \cup {Web(p, i) : p \in PoorProspective, i \in PoorInstalled \cup BadInstalled}
    \cup {Web(p, i) : p \in BadProspective, i \in PoorInstalled \cup BadInstalled}

Inputs ==
    {<<GoodEnviron, w>> : w \in Webs}
    \cup {<<e, Web(p, i)>> : e \in BadEnvirons, p \in PoorProspective, i \in PoorInstalled}

(***************************************************************************)
(* main()                                                                  *)
(***************************************************************************)
Init ==
    /\ \E input \in Inputs : environ = input[1] /\ web = input[2]
    /\ pc = "start"
    /\ now = <<>>
    /\ p_cols = {} /\ p_reader = NoReader
    /\ prospective_folders = <<>> /\ prospective_skipped = 0
    /\ i_cols = {} /\ i_reader = NoReader
    /\ installed_folders = <<>> /\ installed_skipped = 0
    /\ p_categories = <<>> /\ i_classes = <<>>
    /\ files = <<>>
    /\ exit_code = 0
    /\ stderr = <<>>

\* die(msg): the message names the failing check; sys.exit(1) ends the run.
Die(what, missing) ==
    /\ pc' = "error"
    /\ exit_code' = 1
    /\ stderr' = <<[what |-> what, missing |-> missing]>>

\* Lines 135-140: the two environment checks, then the timestamp.
CheckEnv ==
    /\ pc = "start"
    /\ IF PROSPECTIVE_CSV_URL = <<>>
       THEN Die("PROSPECTIVE_CSV_URL env var is required", <<>>) /\ UNCHANGED now
       ELSE IF INSTALLED_CSV_URL = <<>>
       THEN Die("INSTALLED_CSV_URL env var is required", <<>>) /\ UNCHANGED now
       ELSE /\ now' \in Timestamps
            /\ pc' = "read_prospective"
            /\ UNCHANGED <<exit_code, stderr>>
    /\ UNCHANGED << environ, web, p_cols, p_reader, prospective_folders,
                    prospective_skipped, i_cols, i_reader, installed_folders,
                    installed_skipped, p_categories, i_classes, files >>

\* Lines 145-153: fetch the Prospective sheet and check its header.
ReadProspective ==
    /\ pc = "read_prospective"
    /\ LET reader == DictReader(web.prospective)
           cols == SeqSet(reader.fieldnames)
           missing_p == Missing(PROSPECTIVE_REQUIRED_COLUMNS, cols)
       IN  /\ p_reader' = reader
           /\ p_cols' = cols
           /\ IF missing_p # <<>>
              THEN Die("Prospective sheet missing required columns", missing_p)
              ELSE pc' = "prospective_rows" /\ UNCHANGED <<exit_code, stderr>>
    /\ prospective_folders' = <<>>
    /\ prospective_skipped' = 0
    /\ UNCHANGED << environ, web, now, i_cols, i_reader, installed_folders,
                    installed_skipped, p_categories, i_classes, files >>

\* Lines 156-211: what one row does to prospective_folders and prospective_skipped.
ProspectiveStep(folders, skipped, row, cols, t) ==
    LET name == Strip(OrEmpty(Get(row, "Name")))
        category == Strip(OrEmpty(Get(row, "Category")))
        lat == safe_float(Get(row, "Latitude"))
        lon == safe_float(Get(row, "Longitude"))
    IN  IF ProspectiveSkip(name, category, lat, lon)
        THEN [folders |-> folders, skipped |-> skipped + 1]
        ELSE [folders |-> SetDefaultAppend(folders, category,
                              <<Lower(name), ProspectivePlacemark(row, cols, t)>>),
              skipped |-> skipped]

\* Lines 155-211: one iteration of  for row in p_reader.
ProspectiveRow ==
    /\ pc = "prospective_rows"
    /\ NextLine(p_reader) # 0
    /\ LET after == ProspectiveStep(prospective_folders, prospective_skipped,
                                    NextRow(p_reader), p_cols, now)
       IN  /\ prospective_folders' = after.folders
           /\ prospective_skipped' = after.skipped
    /\ p_reader' = [p_reader EXCEPT !.pos = NextLine(p_reader)]
    /\ UNCHANGED << environ, web, pc, now, p_cols, i_cols, i_reader, installed_folders,
                    installed_skipped, p_categories, i_classes, files, exit_code, stderr >>

\* Lines 216-224: the Prospective loop is over; fetch the Installed sheet and
\* check its header.
ReadInstalled ==
    /\ pc = "prospective_rows"
    /\ NextLine(p_reader) = 0
    /\ LET reader == DictReader(web.installed)
           cols == SeqSet(reader.fieldnames)
           missing_i == Missing(INSTALLED_REQUIRED_COLUMNS, cols)
       IN  /\ i_reader' = reader
           /\ i_cols' = cols
           /\ IF missing_i # <<>>
              THEN Die("Installed sheet missing required columns", missing_i)
              ELSE pc' = "installed_rows" /\ UNCHANGED <<exit_code, stderr>>
    /\ p_reader' = [p_reader EXCEPT !.pos = Len(p_reader.lines)]
    /\ installed_folders' = <<>>
    /\ installed_skipped' = 0
    /\ UNCHANGED << environ, web, now, p_cols, prospective_folders, prospective_skipped,
                    p_categories, i_classes, files >>

\* Fault variant of InstalledStep: the marker is filed under its Node Status.
InstalledStep_ByStatus(folders, skipped, row, cols, t) ==
    LET node_id == Strip(OrEmpty(Get(row, "Node ID")))
        node_name == Strip(OrEmpty(Get(row, "Node Name")))
        node_class == Strip(OrEmpty(Get(row, "Node Class")))
        node_status == Strip(OrEmpty(Get(row, "Node Status")))
        lat == safe_float(Get(row, "Latitude"))
        lon == safe_float(Get(row, "Longitude"))
    IN  IF InstalledSkip(node_id, node_name, node_class, node_status, lat, lon)
        THEN [folders |-> folders, skipped |-> skipped + 1]
        ELSE [folders |-> SetDefaultAppend(folders, node_status,
                              <<Lower(node_name), InstalledPlacemark(row, cols, t)>>),
              skipped |-> skipped]

\* Lines 227-319: what one row does to installed_folders and installed_skipped.
InstalledStep(folders, skipped, row, cols, t) ==
    LET node_id == Strip(OrEmpty(Get(row, "Node ID")))
        node_name == Strip(OrEmpty(Get(row, "Node Name")))
        node_class == Strip(OrEmpty(Get(row, "Node Class")))
        node_status == Strip(OrEmpty(Get(row, "Node Status")))
        lat == safe_float(Get(row, "Latitude"))
        lon == safe_float(Get(row, "Longitude"))
    IN  IF InstalledSkip(node_id, node_name, node_class, node_status, lat, lon)
        THEN [folders |-> folders, skipped |-> skipped + 1]
        ELSE [folders |-> SetDefaultAppend(folders, node_class,
                              <<Lower(node_name), InstalledPlacemark(row, cols, t)>>),
              skipped |-> skipped]

\* Lines 226-319: one iteration of  for row in i_reader.
InstalledRow ==
    /\ pc = "installed_rows"
    /\ NextLine(i_reader) # 0
    /\ LET after == InstalledStep(installed_folders, installed_skipped,
                                  NextRow(i_reader), i_cols, now)
       IN  /\ installed_folders' = after.folders
           /\ installed_skipped' = after.skipped
    /\ i_reader' = [i_reader EXCEPT !.pos = NextLine(i_reader)]
    /\ UNCHANGED << environ, web, pc, now, p_cols, p_reader, prospective_folders,
                    prospective_skipped, i_cols, p_categories, i_classes, files,
                    exit_code, stderr >>

\* Lines 324-408: the Installed loop is over; build the styles and the folders
\* (sorting every list of both dicts in place) and write sites.kml.
WriteSites ==
    /\ pc = "installed_rows"
    /\ NextLine(i_reader) = 0
    /\ LET cats == SortedByOrder(Keys(prospective_folders), PROSPECTIVE_CATEGORY_ORDER)
           classes == SortedByOrder(Keys(installed_folders), NODE_CLASS_ORDER)
       IN  /\ p_categories' = cats
           /\ i_classes' = classes
           /\ prospective_folders' = SortAll(prospective_folders)
           /\ installed_folders' = SortAll(installed_folders)
           /\ files' = Append(files,
                  [name |-> OUTPUT_KML,
                   text |-> SitesKml(now, prospective_skipped, installed_skipped,
                                     FolderParts(SortAll(prospective_folders), cats),
                                     FolderParts(SortAll(installed_folders), classes))])
    /\ i_reader' = [i_reader EXCEPT !.pos = Len(i_reader.lines)]
    /\ pc' = "write_networklink"
    /\ UNCHANGED << environ, web, now, p_cols, p_reader, prospective_skipped, i_cols,
                    installed_skipped, exit_code, stderr >>

\* Lines 413-427: write networklink.kml; main() returns.
WriteNetworkLink ==
    /\ pc = "write_networklink"
    /\ files' = Append(files, [name |-> OUTPUT_NETWORKLINK, text |-> NetworkLinkKml])
    /\ pc' = "done"
    /\ UNCHANGED << environ, web, now, p_cols, p_reader, prospective_folders,
                    prospective_skipped, i_cols, i_reader, installed_folders,
                    installed_skipped, p_categories, i_classes, exit_code, stderr >>

Next ==
    \/ CheckEnv
    \/ ReadProspective
    \/ ProspectiveRow
    \/ ReadInstalled
    \/ InstalledRow
    \/ WriteSites
    \/ WriteNetworkLink

Spec == Init /\ [][Next]_vars

(***************************************************************************)
(* Vocabulary of the properties: the rows a reader has yielded so far, the *)
(* markers collected so far, the written documents.                        *)
(***************************************************************************)
\* The indexes of the non-blank lines a reader has consumed, and all of them.
Yielded(reader) == {i \in 1..reader.pos : reader.lines[i] # <<>>}

AllRows(sheet) == {i \in 1..Len(sheet.lines) : sheet.lines[i] # <<>>}

RowAt(sheet, i) == RowDict(sheet.header, sheet.lines[i])

\* The markers of a folder dict, as <<position in dict, position in list>>.
MarkerIndex(d) ==
    UNION {{<<i, j>> : j \in 1..Len(d[i][2])} : i \in 1..Len(d)}

MarkerCount(d) == Cardinality(MarkerIndex(d))

MarkerOf(d, ij) == d[ij[1]][2][ij[2]][2]

SitesWritten == Len(files) >= 1 /\ files[1].name = "sites.kml"

SitesDoc == files[1].text

\* The run has ended after writing both documents.
Done == pc = "done"

\* The markers of a top-level folder of the document, as <<sub-folder, position>>.
DocIndex(top) ==
    UNION {{<<i, j>> : j \in 1..Len(top.folders[i].placemarks)} : i \in 1..Len(top.folders)}

DocMarker(top, ij) == top.folders[ij[1]].placemarks[ij[2]]

\* A coordinate that is a number between lo and hi, bounds included.
Within(x, lo, hi) ==
    /\ x.kind = "num"
    /\ lo * Pow10(x.k) <= Signed(x)
    /\ Signed(x) <= hi * Pow10(x.k)

\* The text of the description line with the given label, <<>> if there is none.
LineText(desc, label) ==
    IF \E n \in 1..Len(desc) : desc[n].label = label
    THEN desc[CHOOSE n \in 1..Len(desc) : desc[n].label = label].text
    ELSE <<>>

Trimmed(row, col) == Strip(OrEmpty(Get(row, col)))

Parses(row, col) == safe_float(Get(row, col)) # NoFloat

(***************************************************************************)
(* C1.  Every marker, while it is collected and in the written sites       *)
(* document, has a latitude in [-90, 90] and a longitude in [-180, 180]    *)
(* and non-blank values of the required text fields of its sheet; and no   *)
(* more markers exist than rows were read whose two coordinates parse.     *)
(***************************************************************************)
GoodProspectiveMarker(m) ==
    /\ Within(m.lat, -90, 90) /\ Within(m.lon, -180, 180)
    /\ Strip(m.name) # <<>>
    /\ Strip(LineText(m.desc, "Name")) # <<>>
    /\ Strip(LineText(m.desc, "Category")) # <<>>

GoodInstalledMarker(m) ==
    /\ Within(m.lat, -90, 90) /\ Within(m.lon, -180, 180)
    /\ Strip(m.name) # <<>>
    /\ Strip(LineText(m.desc, "Node ID")) # <<>>
    /\ Strip(LineText(m.desc, "Node Name")) # <<>>
    /\ Strip(LineText(m.desc, "Node Class")) # <<>>
    /\ Strip(LineText(m.desc, "Node Status")) # <<>>

ParsedRows(reader, sheet) ==
    {i \in Yielded(reader) :
        Parses(RowAt(sheet, i), "Latitude") /\ Parses(RowAt(sheet, i), "Longitude")}

C1_MarkersValid ==
    /\ \A ij \in MarkerIndex(prospective_folders) :
          GoodProspectiveMarker(MarkerOf(prospective_folders, ij))
    /\ \A ij \in MarkerIndex(installed_folders) :
          GoodInstalledMarker(MarkerOf(installed_folders, ij))
    /\ MarkerCount(prospective_folders)
          <= Cardinality(ParsedRows(p_reader, web.prospective))
    /\ MarkerCount(installed_folders)
          <= Cardinality(ParsedRows(i_reader, web.installed))
    /\ SitesWritten =>
          /\ \A ij \in DocIndex(SitesDoc.prospective) :
                GoodProspectiveMarker(DocMarker(SitesDoc.prospective, ij))
          /\ \A ij \in DocIndex(SitesDoc.installed) :
                GoodInstalledMarker(DocMarker(SitesDoc.installed, ij))

\* The sites document is written with a marker on the boundary of the range,
\* after rows out of range and rows with an unparsable coordinate were read.
C1_Witness ==
    /\ SitesWritten
    /\ \E ij \in DocIndex(SitesDoc.prospective) :
          DocMarker(SitesDoc.prospective, ij).lat = float(in_m90)
    /\ \E i \in AllRows(web.prospective) :
          ~Parses(RowAt(web.prospective, i), "Latitude")

(***************************************************************************)
(* C2.  For each sheet, at every point of the run, the markers collected   *)
(* plus the rows skipped are the rows read; while the Prospective rows are *)
(* read the Installed counter stays 0, and while the Installed rows are    *)
(* read the Prospective counter stays what the Prospective loop left; a    *)
(* run ends in error only on the environment or a header, never on a row;  *)
(* and the counts in the sites document are the final counters.            *)
(***************************************************************************)
HeaderHas(sheet, required) == \A c \in required : c \in SeqSet(sheet.header)

ProspectiveHeaderOk ==
    HeaderHas(web.prospective, {"Name", "Latitude", "Longitude", "Category"})

InstalledHeaderOk ==
    HeaderHas(web.installed,
              {"Node ID", "Node Name", "Latitude", "Longitude", "Node Class", "Node Status"})

EnvironOk ==
    /\ Strip(environ["PROSPECTIVE_CSV_URL"]) # <<>>
    /\ Strip(environ["INSTALLED_CSV_URL"]) # <<>>

C2_SkippedAndCounted ==
    /\ MarkerCount(prospective_folders) + prospective_skipped
          = Cardinality(Yielded(p_reader))
    /\ MarkerCount(installed_folders) + installed_skipped
          = Cardinality(Yielded(i_reader))
    /\ pc \in {"start", "read_prospective", "prospective_rows"} =>
          installed_skipped = 0 /\ installed_folders = <<>>
    /\ pc \in {"installed_rows", "write_networklink", "done"} =>
          /\ Yielded(p_reader) = AllRows(web.prospective)
          /\ prospective_skipped + MarkerCount(prospective_folders)
                = Cardinality(AllRows(web.prospective))
    /\ pc = "error" => ~EnvironOk \/ ~ProspectiveHeaderOk \/ ~InstalledHeaderOk
    /\ SitesWritten =>
          /\ SitesDoc.prospective_skipped = prospective_skipped
          /\ SitesDoc.installed_skipped = installed_skipped
          /\ Cardinality(DocIndex(SitesDoc.prospective)) + SitesDoc.prospective_skipped
                = Cardinality(AllRows(web.prospective))
          /\ Cardinality(DocIndex(SitesDoc.installed)) + SitesDoc.installed_skipped
                = Cardinality(AllRows(web.installed))

\* A finished run in which each sheet had a row that was skipped and a row that
\* became a marker.
C2_Witness ==
    /\ pc = "done"
    /\ SitesDoc.prospective_skipped >= 1 /\ DocIndex(SitesDoc.prospective) # {}
    /\ Cardinality(AllRows(web.prospective)) >= 2

(***************************************************************************)
(* C7.  A row becomes a marker exactly when its required text fields are   *)
(* non-blank and its coordinates parse to numbers in range, bounds         *)
(* included: after every row, the markers of a sheet are as many as the    *)
(* rows read so far that satisfy this, and the skipped counter is the      *)
(* number of the others, whatever rows came before and whatever the        *)
(* classification values and optional columns are.                         *)
(***************************************************************************)
CoordinatesOk(row) ==
    LET lat == safe_float(Get(row, "Latitude"))
        lon == safe_float(Get(row, "Longitude"))
    IN  /\ lat # NoFloat /\ lon # NoFloat
        /\ Within(lat, -90, 90)
        /\ Within(lon, -180, 180)

ValidProspectiveRow(row) ==
    /\ Trimmed(row, "Name") # <<>> /\ Trimmed(row, "Category") # <<>>
    /\ CoordinatesOk(row)

ValidInstalledRow(row) ==
    /\ Trimmed(row, "Node ID") # <<>> /\ Trimmed(row, "Node Name") # <<>>
    /\ Trimmed(row, "Node Class") # <<>> /\ Trimmed(row, "Node Status") # <<>>
    /\ CoordinatesOk(row)

ValidSoFarP == {i \in Yielded(p_reader) : ValidProspectiveRow(RowAt(web.prospective, i))}

ValidSoFarI == {i \in Yielded(i_reader) : ValidInstalledRow(RowAt(web.installed, i))}

C7_ValidRowsKept ==
    LET validP == Cardinality(ValidSoFarP)
        validI == Cardinality(ValidSoFarI)
    IN  /\ MarkerCount(prospective_folders) = validP
        /\ prospective_skipped = Cardinality(Yielded(p_reader)) - validP
        /\ MarkerCount(installed_folders) = validI
        /\ installed_skipped = Cardinality(Yielded(i_reader)) - validI

\* A valid row on the boundary of both ranges was kept in a run of the Installed
\* loop that also skipped a row.
C7_Witness ==
    /\ pc = "installed_rows"
    /\ installed_skipped = 1
    /\ \E ij \in MarkerIndex(installed_folders) :
          /\ MarkerOf(installed_folders, ij).lat = float(in_m90)
          /\ MarkerOf(installed_folders, ij).lon = float(in_m180)

(***************************************************************************)
(* C3.  When a header lacks a required column the run never gets past that *)
(* sheet's header check, it ends in the error state, and no document is    *)
(* written, also when the Installed header fails after the Prospective     *)
(* rows were processed.  When both headers have every required column (and *)
(* both URLs are set, without which no header is read) the run can only   *)
(* end having written sites.kml and then networklink.kml.                  *)
(***************************************************************************)
FileNames == [n \in 1..Len(files) |-> files[n].name]

C3_Safety ==
    /\ pc = "error" => files = <<>> /\ exit_code = 1
    /\ ~ProspectiveHeaderOk => pc \in {"start", "read_prospective", "error"}
    /\ ~InstalledHeaderOk =>
          pc \in {"start", "read_prospective", "prospective_rows", "error"}
    /\ FileNames \in {<<>>, <<"sites.kml">>, <<"sites.kml", "networklink.kml">>}
    /\ pc = "done" => FileNames = <<"sites.kml", "networklink.kml">> /\ exit_code = 0

\* The conditions under which main() has a next step: each is the guard of one
\* action, whose remaining conjuncts only assign.
CanStep ==
    \/ pc \in {"start", "read_prospective", "write_networklink"}
    \/ pc = "prospective_rows" /\ NextLine(p_reader) \in 0..Len(p_reader.lines)
    \/ pc = "installed_rows" /\ NextLine(i_reader) \in 0..Len(i_reader.lines)

\* Every state that is not the end of a run has a next step, so a run can
\* only stop in "done" or in "error"; and it is in "error" only for a header
\* or an unset URL, so with both headers complete it stops in "done".
C3_RequiredColumns ==
    /\ C3_Safety
    /\ pc \notin {"done", "error"} => CanStep
    /\ (pc = "error" /\ EnvironOk) => ~ProspectiveHeaderOk \/ ~InstalledHeaderOk
    /\ (pc = "error" /\ EnvironOk /\ ProspectiveHeaderOk) =>
          Yielded(p_reader) = AllRows(web.prospective)

\* The Installed header fails after a Prospective row became a marker.
C3_Witness ==
    /\ pc = "error"
    /\ ~InstalledHeaderOk
    /\ MarkerCount(prospective_folders) >= 1

(***************************************************************************)
(* C4 and C10: the styles of the sites document.                           *)
(***************************************************************************)
Hash(s) == <<35>> \o s

\* The <Style> elements of the document with the given id.
StylesWithId(doc, id) == {n \in 1..Len(doc.styles) : doc.styles[n].id = id}

\* The keys of a colour table that a marker's classification line shows.
ShownKeys(table, m, label) ==
    {n \in 1..Len(table) : html_escape(table[n][1]) = LineText(m.desc, label)}

\* The icon the configuration gives a key: its own, else the default one.
IconFor(icons, key, default) ==
    IF \E n \in 1..Len(icons) : icons[n][1] = key
    THEN icons[CHOOSE n \in 1..Len(icons) : icons[n][1] = key][2]
    ELSE default

\* A marker whose classification value has a colour references the one style
\* of that value, defined with the value's colour and icon; any other marker
\* carries no style reference.
StyledByTable(doc, m, label, table, icons, default, prefix) ==
    IF ShownKeys(table, m, label) # {}
    THEN \A n \in ShownKeys(table, m, label) :
            /\ m.styleUrl = Hash(prefix \o table[n][1])
            /\ Cardinality(StylesWithId(doc, prefix \o table[n][1])) = 1
            /\ \A s \in StylesWithId(doc, prefix \o table[n][1]) :
                  /\ doc.styles[s].color = table[n][2]
                  /\ doc.styles[s].href = IconFor(icons, table[n][1], default)
    ELSE m.styleUrl = <<>>

(***************************************************************************)
(* C4 as claimed: every marker of the sites document is given a style,     *)
(* that of its classification value when the value is configured and a     *)
(* fallback default style otherwise: so every marker references a style    *)
(* that the document defines.                                              *)
(***************************************************************************)
HasStyle(doc, m) ==
    /\ m.styleUrl # <<>>
    /\ \E n \in 1..Len(doc.styles) : m.styleUrl = Hash(doc.styles[n].id)

C4_EveryMarkerStyled ==
    SitesWritten =>
        /\ \A ij \in DocIndex(SitesDoc.prospective) :
              HasStyle(SitesDoc, DocMarker(SitesDoc.prospective, ij))
        /\ \A ij \in DocIndex(SitesDoc.installed) :
              HasStyle(SitesDoc, DocMarker(SitesDoc.installed, ij))

(***************************************************************************)
(* C4 as amended: a marker whose classification value (Category, Node      *)
(* Status) is in the colour table references that value's style, which has *)
(* the value's colour and the value's icon, the default icon when none is  *)
(* configured for it; a marker whose value has no colour is emitted        *)
(* without any style reference.                                            *)
(***************************************************************************)
C4_StyleByClassification ==
    SitesWritten =>
        /\ \A ij \in DocIndex(SitesDoc.prospective) :
              StyledByTable(SitesDoc, DocMarker(SitesDoc.prospective, ij), "Category",
                            PROSPECTIVE_CATEGORY_COLORS, PROSPECTIVE_CATEGORY_ICONS,
                            url_wht_blank, s_p_cat)
        /\ \A ij \in DocIndex(SitesDoc.installed) :
              StyledByTable(SitesDoc, DocMarker(SitesDoc.installed, ij), "Node Status",
                            INSTALLED_STATUS_COLORS, INSTALLED_STATUS_ICONS,
                            url_wht_blank, s_i_status)

\* The document holds a Prospective marker of a configured category and one of
\* a category without colour.
C4_Witness ==
    /\ SitesWritten
    /\ \E ij \in DocIndex(SitesDoc.prospective) :
          DocMarker(SitesDoc.prospective, ij).styleUrl = Hash(s_p_cat \o s_Suggested)
    /\ \E ij \in DocIndex(SitesDoc.prospective) :
          LineText(DocMarker(SitesDoc.prospective, ij).desc, "Category") = in_Other

(***************************************************************************)
(* C10.  Every style reference of a marker names exactly one Style of the  *)
(* same document, with the prefix of the marker's own sheet (p-cat- under  *)
(* Prospective Nodes, i-status- under Installed Nodes) followed by the     *)
(* marker's Category or Node Status; and the Styles are the same in every  *)
(* document: one per configured category colour, then one per configured   *)
(* status colour.                                                          *)
(***************************************************************************)
Resolves(doc, m, prefix, label) ==
    m.styleUrl # <<>> =>
        /\ m.styleUrl = Hash(prefix) \o LineText(m.desc, label)
        /\ Cardinality({n \in 1..Len(doc.styles) : Hash(doc.styles[n].id) = m.styleUrl}) = 1

ConfiguredStyleIds ==
    [n \in 1..Len(PROSPECTIVE_CATEGORY_COLORS) |-> s_p_cat \o PROSPECTIVE_CATEGORY_COLORS[n][1]]
    \o [n \in 1..Len(INSTALLED_STATUS_COLORS) |-> s_i_status \o INSTALLED_STATUS_COLORS[n][1]]

C10_NoDanglingStyle ==
    SitesWritten =>
        /\ \A ij \in DocIndex(SitesDoc.prospective) :
              Resolves(SitesDoc, DocMarker(SitesDoc.prospective, ij), s_p_cat, "Category")
        /\ \A ij \in DocIndex(SitesDoc.installed) :
              Resolves(SitesDoc, DocMarker(SitesDoc.installed, ij), s_i_status, "Node Status")
        /\ [n \in 1..Len(SitesDoc.styles) |-> SitesDoc.styles[n].id] = ConfiguredStyleIds

\* The document holds an Installed marker with a style reference and one whose
\* status has no style.
C10_Witness ==
    /\ SitesWritten
    /\ \E ij \in DocIndex(SitesDoc.installed) :
          DocMarker(SitesDoc.installed, ij).styleUrl = Hash(s_i_status \o s_InService)
    /\ \E ij \in DocIndex(SitesDoc.installed) :
          LineText(DocMarker(SitesDoc.installed, ij).desc, "Node Status") = in_Unknown

(***************************************************************************)
(* C5.  In the sites document every valid Prospective row has its marker   *)
(* in the sub-folder named by its trimmed Category and every valid         *)
(* Installed row in the one named by its trimmed Node Class, as many times *)
(* as there are rows producing that marker and nowhere else; sub-folder    *)
(* names are distinct, none is empty, and they are exactly the keys of the *)
(* valid rows.                                                             *)
(***************************************************************************)
ValidRows(sheet, Valid(_)) == {i \in AllRows(sheet) : Valid(RowAt(sheet, i))}

\* <<sub-folder name, marker>> of the row at line i, and of the marker at ij.
ExpectedP(i) ==
    LET row == RowAt(web.prospective, i)
    IN  << html_escape(Trimmed(row, "Category")),
           ProspectivePlacemark(row, SeqSet(web.prospective.header), now) >>

ExpectedI(i) ==
    LET row == RowAt(web.installed, i)
    IN  << html_escape(Trimmed(row, "Node Class")),
           InstalledPlacemark(row, SeqSet(web.installed.header), now) >>

Placed(top, ij) == << top.folders[ij[1]].name, DocMarker(top, ij) >>

\* expected and placed are sets of <<index, <<sub-folder name, marker>>>>.
Grouped(top, rows, Expected(_)) ==
    LET expected == {<<i, Expected(i)>> : i \in rows}
        placed == {<<ij, Placed(top, ij)>> : ij \in DocIndex(top)}
        Times(S, x) == Cardinality({s \in S : s[2] = x})
    IN  /\ \A p \in placed : Times(placed, p[2]) = Times(expected, p[2])
        /\ \A e \in expected : Times(placed, e[2]) = Times(expected, e[2])
        /\ \A a, b \in 1..Len(top.folders) :
              top.folders[a].name = top.folders[b].name => a = b
        /\ \A a \in 1..Len(top.folders) : top.folders[a].placemarks # <<>>
        /\ {top.folders[a].name : a \in 1..Len(top.folders)} = {e[2][1] : e \in expected}

C5_GroupedByKey ==
    Done =>
        /\ Grouped(SitesDoc.prospective,
                   ValidRows(web.prospective, ValidProspectiveRow), ExpectedP)
        /\ Grouped(SitesDoc.installed,
                   ValidRows(web.installed, ValidInstalledRow), ExpectedI)

\* Two Installed markers of one class and a third of another class, whose
\* status is the name of a class.
C5_Witness ==
    /\ SitesWritten
    /\ Len(SitesDoc.installed.folders) = 2
    /\ Cardinality(DocIndex(SitesDoc.installed)) = 3
    /\ \E ij \in DocIndex(SitesDoc.installed) :
          /\ SitesDoc.installed.folders[ij[1]].name = s_Branch
          /\ LineText(DocMarker(SitesDoc.installed, ij).desc, "Node Status") = s_Backbone

(***************************************************************************)
(* C6.  The sub-folders of each top-level folder follow the sorted key     *)
(* list: keys of the preferred list first, in the order of that list       *)
(* (exact match), then the other keys in ascending order of their          *)
(* lower-cased text; and the markers of a sub-folder are in ascending      *)
(* order of their lower-cased names.                                       *)
(***************************************************************************)
Listed(key, preferred) == \E n \in 1..Len(preferred) : preferred[n] = key

Position(key, preferred) == CHOOSE n \in 1..Len(preferred) : preferred[n] = key

KeysOrdered(keys, preferred) ==
    \A a, b \in 1..Len(keys) : a < b =>
        /\ Listed(keys[b], preferred) => Listed(keys[a], preferred)
        /\ (Listed(keys[a], preferred) /\ Listed(keys[b], preferred)) =>
              Position(keys[a], preferred) < Position(keys[b], preferred)
        /\ (~Listed(keys[a], preferred) /\ ~Listed(keys[b], preferred)) =>
              ~StrLess(Lower(keys[b]), Lower(keys[a]))

\* html.escape produces lower-case entities only, so it commutes with lower().
FoldersOrdered(top, keys) ==
    /\ Len(top.folders) = Len(keys)
    /\ \A a \in 1..Len(keys) :
          /\ top.folders[a].name = html_escape(keys[a])
          /\ \A x, y \in 1..Len(top.folders[a].placemarks) : x < y =>
                ~StrLess(Lower(top.folders[a].placemarks[y].name),
                         Lower(top.folders[a].placemarks[x].name))

C6_DeterministicOrder ==
    SitesWritten =>
        /\ KeysOrdered(p_categories, PROSPECTIVE_CATEGORY_ORDER)
        /\ KeysOrdered(i_classes, NODE_CLASS_ORDER)
        /\ FoldersOrdered(SitesDoc.prospective, p_categories)
        /\ FoldersOrdered(SitesDoc.installed, i_classes)

\* A listed category comes before an unlisted one that sorts before it
\* alphabetically and came first in the sheet, and holds two markers in the
\* reverse of the order their rows came in.
C6_Witness ==
    /\ SitesWritten
    /\ p_categories = <<s_Suggested, in_Foo>>
    /\ web.prospective.lines[1][4] = in_Foo
    /\ web.prospective.lines[2][1] = in_B
    /\ Len(SitesDoc.prospective.folders[1].placemarks) = 2
    /\ SitesDoc.prospective.folders[1].placemarks[2].name = in_B

(***************************************************************************)
(* C9.  The description of every marker of the sites document is that of a *)
(* valid row of its sub-folder's key, and every valid row has such a       *)
(* marker: the mandatory lines first, the update time and the refresh      *)
(* period last, and in between a line for an optional column exactly when  *)
(* the column is in the header and the row's value is non-blank; the Last  *)
(* Updated Date line shows the Late Updated Date column only when the Last *)
(* Updated Date column is absent or blank.                                 *)
(***************************************************************************)
ProspectiveOptionalColumns ==
    { "Street Address", "Proposed By", "Assigned To", "Node Owner",
      "Installed Node Name", "FCC ID", "FCC Link", "Notes" }

InstalledOptionalColumns ==
    { "Node Owner", "Site Owner", "Site Contact Name", "Site Contact Phone",
      "Site Contact Email", "Node Baseboard", "Antenna", "Antenna Gain",
      "Battery Type", "Battery Quantity", "Solar", "Solar Panel Wattage",
      "Installation Type", "Installed Elevation", "Installed Date",
      "Decommissioned Date", "FCC ID", "FCC Link", "Notes" }

HasLine(desc, label) == \E n \in 1..Len(desc) : desc[n].label = label

Shown(sheet, row, col) == col \in SeqSet(sheet.header) /\ Trimmed(row, col) # <<>>

\* desc starts with the mandatory <<label, column>> pairs and ends with the
\* two trailing lines; no label occurs twice.
Framed(desc, row, mandatory) ==
    /\ Len(desc) >= Len(mandatory) + 2
    /\ \A n \in 1..Len(mandatory) :
          /\ desc[n].label = mandatory[n]
          /\ desc[n].text = html_escape(Trimmed(row, mandatory[n]))
    /\ desc[Len(desc) - 1].label = "Updated (UTC)"
    /\ desc[Len(desc) - 1].text = now
    /\ desc[Len(desc)].label = "Refresh"
    /\ \A x, y \in 1..Len(desc) : desc[x].label = desc[y].label => x = y

OptionalShown(desc, sheet, row, optional) ==
    \A c \in optional :
        /\ HasLine(desc, c) <=> Shown(sheet, row, c)
        /\ HasLine(desc, c) => LineText(desc, c) = html_escape(Trimmed(row, c))

DescOfProspective(desc, sheet, row) ==
    /\ Framed(desc, row, <<"Name", "Category">>)
    /\ OptionalShown(desc, sheet, row, ProspectiveOptionalColumns)
    /\ Len(desc) = 4 + Cardinality({c \in ProspectiveOptionalColumns : HasLine(desc, c)})

DescOfInstalled(desc, sheet, row) ==
    /\ Framed(desc, row, <<"Node Name", "Node ID", "Node Class", "Node Status">>)
    /\ OptionalShown(desc, sheet, row, InstalledOptionalColumns)
    /\ HasLine(desc, "Last Updated Date") <=>
          (Shown(sheet, row, "Last Updated Date") \/ Shown(sheet, row, "Late Updated Date"))
    /\ HasLine(desc, "Last Updated Date") =>
          LineText(desc, "Last Updated Date") =
             html_escape(IF Shown(sheet, row, "Last Updated Date")
                         THEN Trimmed(row, "Last Updated Date")
                         ELSE Trimmed(row, "Late Updated Date"))
    /\ Len(desc) = 6 + Cardinality({c \in InstalledOptionalColumns \cup {"Last Updated Date"} :
                                       HasLine(desc, c)})

Described(top, sheet, rows, key, DescOf(_, _, _)) ==
    /\ \A ij \in DocIndex(top) : \E i \in rows :
          /\ top.folders[ij[1]].name = html_escape(Trimmed(RowAt(sheet, i), key))
          /\ DescOf(DocMarker(top, ij).desc, sheet, RowAt(sheet, i))
    /\ \A i \in rows : \E ij \in DocIndex(top) :
          /\ top.folders[ij[1]].name = html_escape(Trimmed(RowAt(sheet, i), key))
          /\ DescOf(DocMarker(top, ij).desc, sheet, RowAt(sheet, i))

C9_OptionalFields ==
    Done =>
        /\ Described(SitesDoc.prospective, web.prospective,
                     ValidRows(web.prospective, ValidProspectiveRow),
                     "Category", DescOfProspective)
        /\ Described(SitesDoc.installed, web.installed,
                     ValidRows(web.installed, ValidInstalledRow),
                     "Node Class", DescOfInstalled)

\* An Installed marker shows the Late Updated Date value under Last Updated
\* Date, the Last Updated Date column being present and blank, and has no
\* Antenna line although the column is present.
C9_Witness ==
    /\ SitesWritten
    /\ "Last Updated Date" \in SeqSet(web.installed.header)
    /\ \E ij \in DocIndex(SitesDoc.installed) :
          /\ LineText(DocMarker(SitesDoc.installed, ij).desc, "Last Updated Date") = in_2023
          /\ ~HasLine(DocMarker(SitesDoc.installed, ij).desc, "Antenna")
          /\ \E i \in AllRows(web.installed) :
                Len(web.installed.lines[i]) >= 7 /\ web.installed.lines[i][7] = in_blank

(***************************************************************************)
(* C8: the sites document as a function of the rows.  RunProspective and   *)
(* RunInstalled are the two loops run on given lines; SubFolders is the    *)
(* folder section built from a loop's result.                              *)
(***************************************************************************)
RECURSIVE RunProspective(_, _, _)
RunProspective(header, lines, t) ==
    IF lines = <<>> THEN [folders |-> <<>>, skipped |-> 0]
    ELSE LET before == RunProspective(header, SubSeq(lines, 1, Len(lines) - 1), t)
             last == lines[Len(lines)]
         IN  IF last = <<>> THEN before
             ELSE ProspectiveStep(before.folders, before.skipped,
                                  RowDict(header, last), SeqSet(header), t)

RECURSIVE RunInstalled(_, _, _)
RunInstalled(header, lines, t) ==
    IF lines = <<>> THEN [folders |-> <<>>, skipped |-> 0]
    ELSE LET before == RunInstalled(header, SubSeq(lines, 1, Len(lines) - 1), t)
             last == lines[Len(lines)]
         IN  IF last = <<>> THEN before
             ELSE InstalledStep(before.folders, before.skipped,
                                RowDict(header, last), SeqSet(header), t)

SubFolders(result, preferred) ==
    FolderParts(SortAll(result.folders), SortedByOrder(Keys(result.folders), preferred))

Reordered(lines, f) == [n \in 1..Len(lines) |-> lines[f[n]]]

Orders(lines) == Permutations(1..Len(lines))

FolderNames(folders) == {folders[a].name : a \in 1..Len(folders)}

(***************************************************************************)
(* C8 as claimed: any reordering of the rows of the Prospective sheet or   *)
(* of the Installed sheet yields the same sub-folders in the same order    *)
(* with the same markers in the same order.                                *)
(***************************************************************************)
C8_AnyOrderSameDocument ==
    Done =>
        /\ \A f \in Orders(web.prospective.lines) :
              SubFolders(RunProspective(web.prospective.header,
                                        Reordered(web.prospective.lines, f), now),
                         PROSPECTIVE_CATEGORY_ORDER)
                 = SitesDoc.prospective.folders
        /\ \A f \in Orders(web.installed.lines) :
              SubFolders(RunInstalled(web.installed.header,
                                      Reordered(web.installed.lines, f), now),
                         NODE_CLASS_ORDER)
                 = SitesDoc.installed.folders

(***************************************************************************)
(* C8 as amended: any reordering of the rows of a sheet yields the same    *)
(* skipped count and the same set of sub-folders; and it yields the same   *)
(* sub-folder order and the same marker order in every sub-folder provided *)
(* no two valid rows of the sheet with the same key have names equal up to *)
(* letter case and no two different unlisted keys of its valid rows are    *)
(* equal up to letter case.  (Rows whose sort keys tie stay in the order   *)
(* they came in.)                                                          *)
(***************************************************************************)
NoTies(sheet, rows, key, name, preferred) ==
    \A i, j \in rows : i # j =>
        LET ki == Trimmed(RowAt(sheet, i), key)
            kj == Trimmed(RowAt(sheet, j), key)
        IN  /\ ki = kj =>
                  Lower(Trimmed(RowAt(sheet, i), name)) # Lower(Trimmed(RowAt(sheet, j), name))
            /\ (ki # kj /\ ~Listed(ki, preferred) /\ ~Listed(kj, preferred)) =>
                  Lower(ki) # Lower(kj)

C8_OrderUpToTies ==
    Done =>
        /\ LET distinct == NoTies(web.prospective,
                                  ValidRows(web.prospective, ValidProspectiveRow),
                                  "Category", "Name", PROSPECTIVE_CATEGORY_ORDER)
           IN  \A f \in Orders(web.prospective.lines) :
                  LET r == RunProspective(web.prospective.header,
                                          Reordered(web.prospective.lines, f), now)
                      folders == SubFolders(r, PROSPECTIVE_CATEGORY_ORDER)
                  IN  /\ r.skipped = SitesDoc.prospective_skipped
                      /\ FolderNames(folders) = FolderNames(SitesDoc.prospective.folders)
                      /\ distinct => folders = SitesDoc.prospective.folders
        /\ LET distinct == NoTies(web.installed,
                                  ValidRows(web.installed, ValidInstalledRow),
                                  "Node Class", "Node Name", NODE_CLASS_ORDER)
           IN  \A f \in Orders(web.installed.lines) :
                  LET r == RunInstalled(web.installed.header,
                                        Reordered(web.installed.lines, f), now)
                      folders == SubFolders(r, NODE_CLASS_ORDER)
                  IN  /\ r.skipped = SitesDoc.installed_skipped
                      /\ FolderNames(folders) = FolderNames(SitesDoc.installed.folders)
                      /\ distinct => folders = SitesDoc.installed.folders

\* Three rows without ties, two of one category and one of an unlisted one,
\* written in another order than they came in.
C8_Witness ==
    /\ SitesWritten
    /\ Len(web.prospective.lines) = 3
    /\ NoTies(web.prospective, ValidRows(web.prospective, ValidProspectiveRow),
              "Category", "Name", PROSPECTIVE_CATEGORY_ORDER)
    /\ web.prospective.lines[1][4] = in_Foo
    /\ web.prospective.lines[2][1] = in_B
    /\ Len(SitesDoc.prospective.folders) = 2
    /\ Len(SitesDoc.prospective.folders[1].placemarks) = 2
    /\ SitesDoc.prospective.folders[1].placemarks[2].name = in_B

=============================================================================
